---- MODULE Spec2Model ----
(***************************************************************************)
(* The service container of framework/container.go: a registry of service  *)
(* providers (providers) and of cached singleton instances (instances),    *)
(* guarded by one sync.RWMutex.  Every goroutine is a caller that runs one *)
(* container method at a time; a method is a sequence of steps, one per    *)
(* lock operation, map access or provider hook, so that goroutines         *)
(* interleave exactly where the Go code lets them.  The repository holds   *)
(* an older copy of the container too, whose Bind keeps the write lock     *)
(* until it returns; its Bind is modelled next to the current one.         *)
(***************************************************************************)
EXTENDS Integers, Sequences, FiniteSets, TLC

\* ------------------------------------------------------------------ bounds
\* Calls a single caller makes (specification Spec).
MaxCalls == 3
\* Calls the concurrent callers make together (specification SpecConc).
MaxConcCalls == 3
\* Calls two concurrent callers make together (specification SpecPair).
MaxPairCalls == 2
\* Provider objects the application may bind.
NumProviders == 3

Keys == {"logger", "conn"}
Providers == 1..NumProviders
SeqProcs == {1}
ConcProcs == {1, 2}

\* ------------------------------------------------- the provider contract
\* ServiceProvider.Name(): odd providers offer "logger", even ones "conn".
Name(p) == IF p % 2 = 1 THEN "logger" ELSE "conn"
\* ServiceProvider.IsDefer(): providers 1, 4, 5, 8, ... are eager.
IsDefer(p) == (p % 4) \in {2, 3}
\* ServiceProvider.Params(c): the provider's default factory arguments.
Params(p) == [nil |-> FALSE, elems |-> <<"default">>]

\* []interface{} values a caller passes to MakeNew: nil, an empty non-nil
\* slice, and a one-element slice.
NilParams == [nil |-> TRUE, elems |-> <<>>]
CallerParams ==
    {NilParams, [nil |-> FALSE, elems |-> <<>>], [nil |-> FALSE, elems |-> <<"host-a">>]}

\* --------------------------------------------------------------- values
\* providers[key] of a key with no entry.
NoProvider == 0
\* The nil interface{}: also instances[key] of a key with no entry.
NoInstance == [id |-> 0, by |-> 0, args |-> <<>>]
\* The object the factory of provider p returns on its n-th successful run.
NewObject(n, p, params) == [id |-> n, by |-> p, args |-> params.elems]

\* error values: text and key make up the message, obj tells an error value
\* made by a provider hook from one made by the container (errors.New).
NoErr == [text |-> "", key |-> "", p |-> 0, obj |-> "nil"]
BootErr(p) == [text |-> "boot failed", key |-> Name(p), p |-> p, obj |-> "provider"]
FactoryErr(p) == [text |-> "factory failed", key |-> Name(p), p |-> p, obj |-> "provider"]
\* errors.New(err.Error()): a new error value carrying the same message.
ErrorsNew(err) == [err EXCEPT !.obj = "container"]
\* errors.New("contract " + key + " have not register")
NotRegisteredErr(key) ==
    [text |-> "contract have not register", key |-> key, p |-> 0, obj |-> "container"]

NoRun == [boot |-> 0, params |-> 0, register |-> 0, factory |-> 0]

VARIABLES
    providers,   \* StartContainer.providers: key -> provider, NoProvider if absent
    instances,   \* StartContainer.instances: key -> instance, NoInstance if absent
    wmutex,      \* lock: the goroutine that holds or has requested the write lock, 0 if none
    readers,     \* lock: read locks held, per goroutine
    pc,          \* per goroutine: its position in the method it runs
    frame,       \* per goroutine: arguments, locals and result of the call it runs
    nextId,      \* identity of the next object a factory returns
    callsLeft,   \* calls the callers may still start
    hookCount,   \* per provider: invocations of Boot, Params, Register, the factory
    hist,        \* the last two calls that returned, oldest first
    lastBind,    \* per key: the last Bind that returned (IdleFrame while none or one runs)
    bindSeen,    \* per key: "none", "started" or "returned" -- has a Bind happened
    resolved,    \* per key: resolution methods called since the last Bind of the key began
    ranSince,    \* per key: hooks run for the key since the last Bind of the key began
    newMade      \* identities of the objects MakeNew has returned

vars == <<providers, instances, wmutex, readers, pc, frame, nextId, callsLeft,
          hookCount, hist, lastBind, bindSeen, resolved, ranSince, newMade>>

ghost == <<lastBind, bindSeen, resolved, ranSince, newMade>>

\* A goroutine between calls.
IdleFrame ==
    [op |-> "none", key |-> "", provider |-> NoProvider, params |-> NilParams,
     given |-> NilParams,
     forceNew |-> FALSE, sp |-> NoProvider, found |-> FALSE, cached |-> FALSE,
     inst |-> NoInstance, val |-> NoInstance, bool |-> FALSE, err |-> NoErr,
     bootErr |-> NoErr, called |-> FALSE, resume |-> "",
     names |-> {}, panicked |-> FALSE, ran |-> NoRun, sawBind |-> FALSE,
     seenBefore |-> "none",
     provBefore |-> [k \in Keys |-> NoProvider],
     instBefore |-> [k \in Keys |-> NoInstance]]

\* NewStartContainer(): both maps empty, the lock free.
InitFor(procs, budget) ==
    /\ providers = [k \in Keys |-> NoProvider]
    /\ instances = [k \in Keys |-> NoInstance]
    /\ wmutex = 0
    /\ readers = [g \in procs |-> 0]
    /\ pc = [g \in procs |-> "idle"]
    /\ frame = [g \in procs |-> IdleFrame]
    /\ nextId = 1
    /\ callsLeft = budget
    /\ hookCount = [p \in Providers |-> NoRun]
    /\ hist = <<>>
    /\ lastBind = [k \in Keys |-> IdleFrame]
    /\ bindSeen = [k \in Keys |-> "none"]
    /\ resolved = [k \in Keys |-> {}]
    /\ ranSince = [k \in Keys |-> NoRun]
    /\ newMade = {}

Procs == DOMAIN pc

\* A Bind is running in some goroutine.
BindRunning == \E g \in Procs : frame[g].op = "Bind"

\* The frame of a call that starts now.
NewFrame(op, key, p, params, forceNew) ==
    [IdleFrame EXCEPT !.op = op, !.key = key, !.provider = p, !.params = params,
                      !.given = params,
                      !.forceNew = forceNew, !.sawBind = (op = "Bind" \/ BindRunning),
                      !.seenBefore = bindSeen[key],
                      !.provBefore = providers, !.instBefore = instances]

\* A hook of provider p runs in the call of goroutine self.
RunHook(self, p, hook) ==
    /\ hookCount' = [hookCount EXCEPT ![p][hook] = @ + 1]
    /\ ranSince' = [ranSince EXCEPT ![frame[self].key][hook] = @ + 1]

\* frame[self] with one more run of hook counted.
Ran(self, hook) == [frame[self] EXCEPT !.ran[hook] = @ + 1]

\* The call of goroutine self returns with frame rec.
Return(self, rec) ==
    /\ pc' = [pc EXCEPT ![self] = "idle"]
    /\ frame' = [frame EXCEPT ![self] = IdleFrame]
    /\ hist' = IF Len(hist) < 2 THEN Append(hist, rec) ELSE <<hist[2], rec>>
    /\ lastBind' = IF rec.op = "Bind" THEN [lastBind EXCEPT ![rec.key] = rec] ELSE lastBind
    /\ bindSeen' = IF rec.op = "Bind" THEN [bindSeen EXCEPT ![rec.key] = "returned"]
                   ELSE bindSeen
    /\ newMade' = IF rec.op = "MakeNew" /\ rec.val # NoInstance
                  THEN newMade \cup {rec.val.id} ELSE newMade

\* ------------------------------------------------------------ the callers
\* A caller starts Bind(provider) at position label.
StartBind(self, label) ==
    /\ pc[self] = "idle"
    /\ callsLeft > 0
    /\ \E p \in Providers :
        /\ frame' = [g \in Procs |->
                        IF g = self THEN NewFrame("Bind", Name(p), p, NilParams, FALSE)
                        ELSE IF frame[g].op = "none" THEN frame[g]
                        ELSE [frame[g] EXCEPT !.sawBind = TRUE]]
        /\ lastBind' = [lastBind EXCEPT ![Name(p)] = IdleFrame]
        /\ bindSeen' = [bindSeen EXCEPT ![Name(p)] = "started"]
        /\ resolved' = [resolved EXCEPT ![Name(p)] = {}]
        /\ ranSince' = [ranSince EXCEPT ![Name(p)] = NoRun]
    /\ pc' = [pc EXCEPT ![self] = label]
    /\ callsLeft' = callsLeft - 1
    /\ UNCHANGED <<providers, instances, wmutex, readers, nextId, hookCount, hist, newMade>>

\* A caller starts Bind(provider).
CallBind(self) == StartBind(self, "bind_lock")

\* A caller starts Make(key), MustMake(key) or MakeNew(key, params): each
\* calls make(key, params, forceNew).
CallMake(self) ==
    /\ pc[self] = "idle"
    /\ callsLeft > 0
    /\ \E key \in Keys :
        \E op \in {"Make", "MustMake", "MakeNew"} :
            \E params \in (IF op = "MakeNew" THEN CallerParams ELSE {NilParams}) :
                /\ frame' = [frame EXCEPT ![self] =
                                NewFrame(op, key, NoProvider, params, op = "MakeNew")]
                /\ resolved' = [resolved EXCEPT ![key] = @ \cup {op}]
    /\ pc' = [pc EXCEPT ![self] = "make_rlock"]
    /\ callsLeft' = callsLeft - 1
    /\ UNCHANGED <<providers, instances, wmutex, readers, nextId, hookCount, hist,
                   lastBind, bindSeen, ranSince, newMade>>

\* A caller starts IsBind(key).
CallIsBind(self) ==
    /\ pc[self] = "idle"
    /\ callsLeft > 0
    /\ \E key \in Keys :
        frame' = [frame EXCEPT ![self] = NewFrame("IsBind", key, NoProvider, NilParams, FALSE)]
    /\ pc' = [pc EXCEPT ![self] = "find_rlock"]
    /\ callsLeft' = callsLeft - 1
    /\ UNCHANGED <<providers, instances, wmutex, readers, nextId, hookCount, hist, ghost>>

\* A caller starts NameList() or PrintProviders().
CallList(self) ==
    /\ pc[self] = "idle"
    /\ callsLeft > 0
    /\ \E op \in {"NameList", "PrintProviders"} :
        frame' = [frame EXCEPT ![self] =
                    [IdleFrame EXCEPT !.op = op, !.sawBind = BindRunning,
                                      !.provBefore = providers, !.instBefore = instances]]
    /\ pc' = [pc EXCEPT ![self] = "list_read"]
    /\ callsLeft' = callsLeft - 1
    /\ UNCHANGED <<providers, instances, wmutex, readers, nextId, hookCount, hist, ghost>>

\* What a step that does not return leaves alone.
returnVars == <<hist, lastBind, bindSeen, newMade>>

\* Goroutine self moves on to label with frame rec.
Goto(self, label, rec) ==
    /\ pc' = [pc EXCEPT ![self] = label]
    /\ frame' = [frame EXCEPT ![self] = rec]
    /\ UNCHANGED returnVars

\* ------------------------------------------------------------------- Bind
\* A Bind that keeps the provider already bound to the key.
PutProviderIfAbsent(key, p) ==
    IF providers[key] = NoProvider THEN [providers EXCEPT ![key] = p] ELSE providers

\* A Bind whose write of providers is lost.
PutProviderDropped(key, p) == providers

\* s.providers[key] = provider
PutProvider(key, p) == [providers EXCEPT ![key] = p]

\* A Bind that instantiates no provider.
EagerNever(p) == FALSE

\* A Bind that ignores IsDefer and instantiates every provider.
EagerAlways(p) == TRUE

\* if provider.IsDefer() == false
EagerAtBind(p) == IsDefer(p) = FALSE

\* A cache write that is lost.
PutInstanceNowhere(key, inst) == instances

\* s.instances[key] = instance
PutInstance(key, inst) == [instances EXCEPT ![key] = inst]

\* s.lock.Lock(): the writer announces itself, which keeps new readers out.
BindLock(self) ==
    /\ pc[self] = "bind_lock"
    /\ wmutex = 0
    /\ wmutex' = self
    /\ pc' = [pc EXCEPT ![self] = "bind_put"]
    /\ UNCHANGED <<providers, instances, readers, frame, nextId, callsLeft, hookCount,
                   hist, ghost>>

\* A Bind that also drops the cached instance of the key.
BindPutClearing(self) ==
    /\ pc[self] = "bind_put"
    /\ \A g \in Procs : readers[g] = 0
    /\ providers' = [providers EXCEPT ![frame[self].key] = frame[self].provider]
    /\ instances' = [instances EXCEPT ![frame[self].key] = NoInstance]
    /\ pc' = [pc EXCEPT ![self] = "bind_unlock"]
    /\ UNCHANGED <<wmutex, readers, frame, nextId, callsLeft, hookCount, hist, ghost>>

\* s.lock.Lock() returns once the readers have left; s.providers[key] = provider.
BindPut(self) ==
    /\ pc[self] = "bind_put"
    /\ \A g \in Procs : readers[g] = 0
    /\ providers' = PutProvider(frame[self].key, frame[self].provider)
    /\ pc' = [pc EXCEPT ![self] = "bind_unlock"]
    /\ UNCHANGED <<instances, wmutex, readers, frame, nextId, callsLeft, hookCount,
                   hist, ghost>>

\* s.lock.Unlock(); a deferred provider is done, an eager one goes on to Boot.
BindUnlock(self) ==
    /\ pc[self] = "bind_unlock"
    /\ wmutex' = 0
    /\ IF EagerAtBind(frame[self].provider)
       THEN Goto(self, "bind_boot", frame[self])
       ELSE Return(self, frame[self])
    /\ UNCHANGED <<providers, instances, readers, nextId, callsLeft, hookCount,
                   resolved, ranSince>>

\* A Bind that takes the binding back when Boot fails.
BindBootUnbinding(self) ==
    /\ pc[self] = "bind_boot"
    /\ RunHook(self, frame[self].provider, "boot")
    /\ \E ok \in BOOLEAN :
        IF ok THEN Goto(self, "bind_params", Ran(self, "boot")) /\ UNCHANGED providers
        ELSE /\ Return(self, [Ran(self, "boot") EXCEPT
                                !.bootErr = BootErr(frame[self].provider),
                                !.err = BootErr(frame[self].provider)])
             /\ providers' = [providers EXCEPT ![frame[self].key] = NoProvider]
    /\ UNCHANGED <<instances, wmutex, readers, nextId, callsLeft, resolved>>

\* provider.Boot(s): its error is returned as it is.
BindBoot(self) ==
    /\ pc[self] = "bind_boot"
    /\ RunHook(self, frame[self].provider, "boot")
    /\ \E ok \in BOOLEAN :
        IF ok THEN Goto(self, "bind_params", Ran(self, "boot"))
        ELSE Return(self, [Ran(self, "boot") EXCEPT
                                !.bootErr = BootErr(frame[self].provider),
                                !.err = BootErr(frame[self].provider)])
    /\ UNCHANGED <<providers, instances, wmutex, readers, nextId, callsLeft, resolved>>

\* params := provider.Params(s)
BindParams(self) ==
    /\ pc[self] = "bind_params"
    /\ RunHook(self, frame[self].provider, "params")
    /\ Goto(self, "bind_register",
            [Ran(self, "params") EXCEPT !.params = Params(frame[self].provider)])
    /\ UNCHANGED <<providers, instances, wmutex, readers, nextId, callsLeft, resolved>>

\* method := provider.Register(s)
BindRegister(self) ==
    /\ pc[self] = "bind_register"
    /\ RunHook(self, frame[self].provider, "register")
    /\ Goto(self, "bind_factory", Ran(self, "register"))
    /\ UNCHANGED <<providers, instances, wmutex, readers, nextId, callsLeft, resolved>>

\* instance, err := method(params...); an error is returned as errors.New(err.Error()).
BindFactory(self) ==
    /\ pc[self] = "bind_factory"
    /\ RunHook(self, frame[self].provider, "factory")
    /\ \E ok \in BOOLEAN :
        IF ok
        THEN /\ Goto(self, "bind_cache",
                     [Ran(self, "factory") EXCEPT
                        !.inst = NewObject(nextId, frame[self].provider, frame[self].params)])
             /\ nextId' = nextId + 1
        ELSE /\ Return(self, [Ran(self, "factory") EXCEPT
                                !.err = ErrorsNew(FactoryErr(frame[self].provider))])
             /\ UNCHANGED nextId
    /\ UNCHANGED <<providers, instances, wmutex, readers, callsLeft, resolved>>

\* s.instances[key] = instance, with no lock held; return nil.
BindCache(self) ==
    /\ pc[self] = "bind_cache"
    /\ instances' = PutInstance(frame[self].key, frame[self].inst)
    /\ Return(self, frame[self])
    /\ UNCHANGED <<providers, wmutex, readers, nextId, callsLeft, hookCount,
                   resolved, ranSince>>

\* ------------------------------------------- findServiceProvider, IsBind
\* s.lock.RLock() of findServiceProvider: a reader waits while a writer holds
\* or has requested the lock, also when the goroutine already holds a read lock.
FindRLock(self) ==
    /\ pc[self] = "find_rlock"
    /\ wmutex = 0
    /\ readers' = [readers EXCEPT ![self] = @ + 1]
    /\ pc' = [pc EXCEPT ![self] = "find_read"]
    /\ UNCHANGED <<providers, instances, wmutex, frame, nextId, callsLeft, hookCount,
                   hist, ghost>>

\* A lookup that only finds providers whose instance is cached.
FindInstantiated(key) == IF instances[key] # NoInstance THEN providers[key] ELSE NoProvider

\* sp, ok := s.providers[key]
FindProvider(key) == providers[key]

\* findServiceProvider reads the map and returns (defer RUnlock); IsBind
\* returns whether it found a provider, make goes on.
FindRead(self) ==
    /\ pc[self] = "find_read"
    /\ readers' = [readers EXCEPT ![self] = @ - 1]
    /\ LET sp == FindProvider(frame[self].key)
           rec == [frame[self] EXCEPT !.sp = sp, !.found = (sp # NoProvider)]
       IN  IF frame[self].op = "IsBind"
           THEN Return(self, [rec EXCEPT !.bool = (sp # NoProvider)])
           ELSE Goto(self, "make_check", rec)
    /\ UNCHANGED <<providers, instances, wmutex, nextId, callsLeft, hookCount,
                   resolved, ranSince>>

\* ------------------------------------------------ make and newInstance
\* s.lock.RLock() of make, held until make returns (defer s.lock.RUnlock()).
MakeRLock(self) ==
    /\ pc[self] = "make_rlock"
    /\ wmutex = 0
    /\ readers' = [readers EXCEPT ![self] = @ + 1]
    /\ pc' = [pc EXCEPT ![self] = "find_rlock"]
    /\ UNCHANGED <<providers, instances, wmutex, frame, nextId, callsLeft, hookCount,
                   hist, ghost>>

\* A MustMake that returns nil where it should panic.
MustMakeReturns(op, err) == FALSE

\* MustMake: if err != nil { panic("container not contain key " + key) }
MustMakePanics(op, err) == op = "MustMake" /\ err # NoErr

\* make returns (val, err) to Make, MustMake or MakeNew, releasing its read
\* lock; a failed call returns the nil instance.
MakeReturn(self, rec, val, err) ==
    /\ readers' = [readers EXCEPT ![self] = @ - 1]
    /\ Return(self, [rec EXCEPT !.val = IF err = NoErr THEN val ELSE NoInstance,
                                !.err = err,
                                !.panicked = MustMakePanics(rec.op, err)])

\* A make that never finds the cached instance.
CachedNever(key) == FALSE

\* A make that takes an instance for cached only if the provider bound to
\* the key built it.
CachedByBoundProvider(key) ==
    instances[key] # NoInstance /\ instances[key].by = providers[key]

\* ins, ok := s.instances[key]
Cached(key) == instances[key] # NoInstance

\* A make that takes every resolution for a singleton resolution.
ForceNewIgnored(rec) == FALSE

\* if forceNew { return s.newInstance(sp, params) }
ForceNew(rec) == rec.forceNew

\* make after the lookup: sp == nil is an error; forceNew builds a new
\* instance; a cached instance is returned; otherwise one is built.
MakeCheck(self) ==
    /\ pc[self] = "make_check"
    /\ IF frame[self].sp = NoProvider
       THEN MakeReturn(self, frame[self], NoInstance, NotRegisteredErr(frame[self].key))
       ELSE IF ForceNew(frame[self])
       THEN Goto(self, "ni_boot", frame[self]) /\ UNCHANGED readers
       ELSE IF Cached(frame[self].key)
       THEN MakeReturn(self, [frame[self] EXCEPT !.cached = TRUE],
                       instances[frame[self].key], NoErr)
       ELSE Goto(self, "ni_boot", frame[self]) /\ UNCHANGED readers
    /\ UNCHANGED <<providers, instances, wmutex, nextId, callsLeft, hookCount,
                   resolved, ranSince>>

\* A newInstance that goes on when Boot has failed.
NiBootUnchecked(self) ==
    /\ pc[self] = "ni_boot"
    /\ RunHook(self, frame[self].sp, "boot")
    /\ \E ok \in BOOLEAN :
        /\ Goto(self, "ni_params",
                [Ran(self, "boot") EXCEPT
                    !.bootErr = IF ok THEN NoErr ELSE BootErr(frame[self].sp)])
        /\ UNCHANGED readers
    /\ UNCHANGED <<providers, instances, wmutex, nextId, callsLeft, resolved>>

\* newInstance: if err := sp.Boot(s); err != nil { return nil, err }
NiBoot(self) ==
    /\ pc[self] = "ni_boot"
    /\ RunHook(self, frame[self].sp, "boot")
    /\ \E ok \in BOOLEAN :
        IF ok THEN Goto(self, "ni_params", Ran(self, "boot")) /\ UNCHANGED readers
        ELSE MakeReturn(self, [Ran(self, "boot") EXCEPT !.bootErr = BootErr(frame[self].sp)],
                        NoInstance, BootErr(frame[self].sp))
    /\ UNCHANGED <<providers, instances, wmutex, nextId, callsLeft, resolved>>

\* if params == nil
UseProviderParams(params) == params.nil

\* newInstance: if params == nil { params = sp.Params(s) }
NiParams(self) ==
    /\ pc[self] = "ni_params"
    /\ IF UseProviderParams(frame[self].params)
       THEN /\ RunHook(self, frame[self].sp, "params")
            /\ Goto(self, "ni_register",
                    [Ran(self, "params") EXCEPT !.params = Params(frame[self].sp)])
       ELSE /\ Goto(self, "ni_register", frame[self])
            /\ UNCHANGED <<hookCount, ranSince>>
    /\ UNCHANGED <<providers, instances, wmutex, readers, nextId, callsLeft, resolved>>

\* newInstance: method := sp.Register(s)
NiRegister(self) ==
    /\ pc[self] = "ni_register"
    /\ RunHook(self, frame[self].sp, "register")
    /\ Goto(self, "ni_factory", Ran(self, "register"))
    /\ UNCHANGED <<providers, instances, wmutex, readers, nextId, callsLeft, resolved>>

\* A make that caches what the factory left behind when it failed.
NiFactoryCachingFailure(self) ==
    /\ pc[self] = "ni_factory"
    /\ RunHook(self, frame[self].sp, "factory")
    /\ \E ok \in BOOLEAN :
        LET ins == NewObject(nextId, frame[self].sp, frame[self].params)
            rec == [Ran(self, "factory") EXCEPT !.inst = ins]
        IN  /\ nextId' = nextId + 1
            /\ IF ok
               THEN /\ UNCHANGED instances
                    /\ IF frame[self].forceNew
                       THEN MakeReturn(self, rec, ins, NoErr)
                       ELSE Goto(self, "make_cache", rec) /\ UNCHANGED readers
               ELSE /\ instances' = [instances EXCEPT ![frame[self].key] = ins]
                    /\ MakeReturn(self, rec, NoInstance,
                                  ErrorsNew(FactoryErr(frame[self].sp)))
    /\ UNCHANGED <<providers, wmutex, callsLeft, resolved>>

\* newInstance: ins, err := method(params...); an error is returned as
\* errors.New(err.Error()).  With forceNew make returns the instance as it
\* is, otherwise it goes on to cache it.
NiFactory(self) ==
    /\ pc[self] = "ni_factory"
    /\ RunHook(self, frame[self].sp, "factory")
    /\ \E ok \in BOOLEAN :
        IF ok
        THEN LET ins == NewObject(nextId, frame[self].sp, frame[self].params)
                 rec == [Ran(self, "factory") EXCEPT !.inst = ins]
             IN  /\ nextId' = nextId + 1
                 /\ IF ForceNew(frame[self])
                    THEN MakeReturn(self, rec, ins, NoErr)
                    ELSE Goto(self, "make_cache", rec) /\ UNCHANGED readers
        ELSE /\ MakeReturn(self, Ran(self, "factory"), NoInstance,
                           ErrorsNew(FactoryErr(frame[self].sp)))
             /\ UNCHANGED nextId
    /\ UNCHANGED <<providers, wmutex, callsLeft, resolved>>
    /\ UNCHANGED instances

\* s.instances[key] = inst, under the read lock; return inst, nil.
MakeCache(self) ==
    /\ pc[self] = "make_cache"
    /\ instances' = PutInstance(frame[self].key, frame[self].inst)
    /\ MakeReturn(self, frame[self], frame[self].inst, NoErr)
    /\ UNCHANGED <<providers, wmutex, nextId, callsLeft, hookCount, resolved, ranSince>>

\* --------------------------------------------- NameList, PrintProviders
\* for _, provider := range s.providers { ret = append(ret, provider.Name()) }
\* The order of a map iteration is unspecified: the list is its elements.
ProviderNames == {Name(providers[k]) : k \in {j \in Keys : providers[j] # NoProvider}}

\* NameList and PrintProviders walk s.providers with no lock held and
\* return the names (PrintProviders formats each with fmt.Sprint).
ListRead(self) ==
    /\ pc[self] = "list_read"
    /\ Return(self, [frame[self] EXCEPT !.names = ProviderNames])
    /\ UNCHANGED <<providers, instances, wmutex, readers, nextId, callsLeft, hookCount,
                   resolved, ranSince>>

\* ------------------------------------------- hooks that use the container
\* Boot, Params and Register are handed the container.  A Boot may call
\* IsBind on it, here for the key the provider does not offer itself.
OtherKey(key) == CHOOSE k \in Keys : k # key

\* provider.Boot(s) calls s.IsBind(key) before it does its own work.
BootCallsIsBind(self) ==
    /\ pc[self] \in {"bind_boot", "ni_boot", "old_boot"}
    /\ ~ frame[self].called
    /\ Goto(self, "hook_rlock", [frame[self] EXCEPT !.called = TRUE, !.resume = pc[self]])
    /\ UNCHANGED <<providers, instances, wmutex, readers, nextId, callsLeft, hookCount,
                   resolved, ranSince>>

\* s.lock.RLock() of the findServiceProvider that the hook's IsBind calls.
HookRLock(self) ==
    /\ pc[self] = "hook_rlock"
    /\ wmutex = 0
    /\ readers' = [readers EXCEPT ![self] = @ + 1]
    /\ pc' = [pc EXCEPT ![self] = "hook_read"]
    /\ UNCHANGED <<providers, instances, wmutex, frame, nextId, callsLeft, hookCount,
                   hist, ghost>>

\* The hook's IsBind reads the map, releases the read lock and returns to Boot.
HookRead(self) ==
    /\ pc[self] = "hook_read"
    /\ readers' = [readers EXCEPT ![self] = @ - 1]
    /\ Goto(self, frame[self].resume,
            [frame[self] EXCEPT
                !.bool = (FindProvider(OtherKey(frame[self].key)) # NoProvider)])
    /\ UNCHANGED <<providers, instances, wmutex, nextId, callsLeft, hookCount,
                   resolved, ranSince>>

\* ------------------------------------------ Bind of the older container
\* The older copy of the container differs in Bind, which keeps the write
\* lock until it returns (defer start.lock.Unlock()).  make, newInstance,
\* findServiceProvider and IsBind are the same code as in container.go.
OldCallBind(self) == StartBind(self, "old_lock")

\* start.lock.Lock()
OldBindLock(self) ==
    /\ pc[self] = "old_lock"
    /\ wmutex = 0
    /\ wmutex' = self
    /\ pc' = [pc EXCEPT ![self] = "old_put"]
    /\ UNCHANGED <<providers, instances, readers, frame, nextId, callsLeft, hookCount,
                   hist, ghost>>

\* Bind returns with frame rec: the deferred Unlock runs.
OldBindReturn(self, rec) ==
    /\ wmutex' = 0
    /\ Return(self, rec)

\* start.providers[key] = provider; a deferred provider is done.
OldBindPut(self) ==
    /\ pc[self] = "old_put"
    /\ \A g \in Procs : readers[g] = 0
    /\ providers' = PutProvider(frame[self].key, frame[self].provider)
    /\ IF EagerAtBind(frame[self].provider)
       THEN Goto(self, "old_boot", frame[self]) /\ UNCHANGED wmutex
       ELSE OldBindReturn(self, frame[self])
    /\ UNCHANGED <<instances, readers, nextId, callsLeft, hookCount, resolved, ranSince>>

\* provider.Boot(start), with the write lock held.
OldBindBoot(self) ==
    /\ pc[self] = "old_boot"
    /\ RunHook(self, frame[self].provider, "boot")
    /\ \E ok \in BOOLEAN :
        IF ok THEN Goto(self, "old_params", Ran(self, "boot")) /\ UNCHANGED wmutex
        ELSE OldBindReturn(self, [Ran(self, "boot") EXCEPT
                                    !.bootErr = BootErr(frame[self].provider),
                                    !.err = BootErr(frame[self].provider)])
    /\ UNCHANGED <<providers, instances, readers, nextId, callsLeft, resolved>>

\* params := provider.Params(start)
OldBindParams(self) ==
    /\ pc[self] = "old_params"
    /\ RunHook(self, frame[self].provider, "params")
    /\ Goto(self, "old_register",
            [Ran(self, "params") EXCEPT !.params = Params(frame[self].provider)])
    /\ UNCHANGED <<providers, instances, wmutex, readers, nextId, callsLeft, resolved>>

\* method := provider.Register(start)
OldBindRegister(self) ==
    /\ pc[self] = "old_register"
    /\ RunHook(self, frame[self].provider, "register")
    /\ Goto(self, "old_factory", Ran(self, "register"))
    /\ UNCHANGED <<providers, instances, wmutex, readers, nextId, callsLeft, resolved>>

\* instance, err := method(params...)
OldBindFactory(self) ==
    /\ pc[self] = "old_factory"
    /\ RunHook(self, frame[self].provider, "factory")
    /\ \E ok \in BOOLEAN :
        IF ok
        THEN /\ Goto(self, "old_cache",
                     [Ran(self, "factory") EXCEPT
                        !.inst = NewObject(nextId, frame[self].provider, frame[self].params)])
             /\ nextId' = nextId + 1
             /\ UNCHANGED wmutex
        ELSE /\ OldBindReturn(self, [Ran(self, "factory") EXCEPT
                                       !.err = ErrorsNew(FactoryErr(frame[self].provider))])
             /\ UNCHANGED nextId
    /\ UNCHANGED <<providers, instances, readers, callsLeft, resolved>>

\* start.instances[key] = instance, under the write lock; return nil.
OldBindCache(self) ==
    /\ pc[self] = "old_cache"
    /\ instances' = PutInstance(frame[self].key, frame[self].inst)
    /\ OldBindReturn(self, frame[self])
    /\ UNCHANGED <<providers, readers, nextId, callsLeft, hookCount, resolved, ranSince>>

\* ------------------------------------------------------ specifications
Next ==
    \/ \E self \in Procs : CallBind(self)
    \/ \E self \in Procs : CallMake(self)
    \/ \E self \in Procs : CallIsBind(self)
    \/ \E self \in Procs : CallList(self)
    \/ \E self \in Procs : BindLock(self)
    \/ \E self \in Procs : BindPut(self)
    \/ \E self \in Procs : BindUnlock(self)
    \/ \E self \in Procs : BindBoot(self)
    \/ \E self \in Procs : BindParams(self)
    \/ \E self \in Procs : BindRegister(self)
    \/ \E self \in Procs : BindFactory(self)
    \/ \E self \in Procs : BindCache(self)
    \/ \E self \in Procs : FindRLock(self)
    \/ \E self \in Procs : FindRead(self)
    \/ \E self \in Procs : MakeRLock(self)
    \/ \E self \in Procs : MakeCheck(self)
    \/ \E self \in Procs : NiBoot(self)
    \/ \E self \in Procs : NiParams(self)
    \/ \E self \in Procs : NiRegister(self)
    \/ \E self \in Procs : NiFactory(self)
    \/ \E self \in Procs : MakeCache(self)
    \/ \E self \in Procs : ListRead(self)

\* One caller: calls follow one another.
Init == InitFor(SeqProcs, MaxCalls)
Spec == Init /\ [][Next]_vars

\* Two goroutines call into the container concurrently.
InitConc == InitFor(ConcProcs, MaxConcCalls)
SpecConc == InitConc /\ [][Next]_vars

\* Two goroutines with fewer calls between them.
InitPair == InitFor(ConcProcs, MaxPairCalls)
SpecPair == InitPair /\ [][Next]_vars

\* One caller, and providers whose Boot may call IsBind on the container.
NextHooks ==
    \/ Next
    \/ \E self \in Procs : BootCallsIsBind(self)
    \/ \E self \in Procs : HookRLock(self)
    \/ \E self \in Procs : HookRead(self)

SpecHooks == Init /\ [][NextHooks]_vars

\* The same callers and providers on the older container.
NextOld ==
    \/ \E self \in Procs : OldCallBind(self)
    \/ \E self \in Procs : CallMake(self)
    \/ \E self \in Procs : CallIsBind(self)
    \/ \E self \in Procs : OldBindLock(self)
    \/ \E self \in Procs : OldBindPut(self)
    \/ \E self \in Procs : OldBindBoot(self)
    \/ \E self \in Procs : OldBindParams(self)
    \/ \E self \in Procs : OldBindRegister(self)
    \/ \E self \in Procs : OldBindFactory(self)
    \/ \E self \in Procs : OldBindCache(self)
    \/ \E self \in Procs : FindRLock(self)
    \/ \E self \in Procs : FindRead(self)
    \/ \E self \in Procs : MakeRLock(self)
    \/ \E self \in Procs : MakeCheck(self)
    \/ \E self \in Procs : NiBoot(self)
    \/ \E self \in Procs : NiParams(self)
    \/ \E self \in Procs : NiRegister(self)
    \/ \E self \in Procs : NiFactory(self)
    \/ \E self \in Procs : MakeCache(self)
    \/ \E self \in Procs : BootCallsIsBind(self)
    \/ \E self \in Procs : HookRLock(self)
    \/ \E self \in Procs : HookRead(self)

SpecOld == Init /\ [][NextOld]_vars

\* ------------------------------------------------------------ properties
\* The call that returned last, and the one before it.
Last == hist[Len(hist)]
Prev == hist[Len(hist) - 1]
Returned == Len(hist) > 0
ReturnedTwo == Len(hist) = 2
\* No call is running.
AllIdle == \A g \in Procs : pc[g] = "idle"
\* The last Bind of key k has returned nil for a provider that is not deferred.
EagerBound(k) ==
    /\ lastBind[k].op = "Bind"
    /\ lastBind[k].err = NoErr
    /\ ~IsDefer(lastBind[k].provider)

\* C1: once Bind(P) of a provider that is not deferred has returned nil, Bind
\* has run P's factory once and cached its instance, and every Make(P.Name())
\* that follows with no Bind of the key in between returns that instance with
\* no error and without running the factory.
C1_EagerBindThenMake ==
    \A k \in Keys :
        EagerBound(k) =>
            /\ lastBind[k].ran.factory = 1
            /\ lastBind[k].inst # NoInstance
            /\ (Returned /\ Last.op = "Make" /\ Last.key = k) =>
                    /\ Last.err = NoErr
                    /\ Last.val = lastBind[k].inst
                    /\ Last.ran.factory = 0

\* Bind of an eager provider, then two Make of its key, both returning the
\* instance Bind cached.
C1_Witness ==
    /\ AllIdle
    /\ ReturnedTwo
    /\ Prev.op = "Make" /\ Last.op = "Make" /\ Prev.key = Last.key
    /\ EagerBound(Last.key)
    /\ Prev.val = lastBind[Last.key].inst
    /\ Last.val = lastBind[Last.key].inst

\* The last Bind of key k has returned, for a deferred provider.
DeferredBound(k) ==
    /\ lastBind[k].op = "Bind"
    /\ IsDefer(lastBind[k].provider)

\* A Bind of a deferred provider, running or returned, has run no hook and
\* has left instances as it found it.
DeferredBindIsInert ==
    /\ \A g \in Procs :
            (frame[g].op = "Bind" /\ IsDefer(frame[g].provider)) =>
                /\ frame[g].ran = NoRun
                /\ ranSince[frame[g].key] = NoRun
                /\ instances = frame[g].instBefore
    /\ \A k \in Keys : DeferredBound(k) => lastBind[k].ran = NoRun /\ lastBind[k].err = NoErr

\* C2, as stated: after Bind(P) of a deferred provider no hook (Boot, Params,
\* Register, the factory) runs for P.Name() until Make or MustMake has been
\* called for it; Bind and IsBind run none and leave instances alone.
C2_NoHookBeforeMake ==
    /\ DeferredBindIsInert
    /\ \A k \in Keys :
            (DeferredBound(k) /\ resolved[k] \cap {"Make", "MustMake"} = {}) =>
                /\ ranSince[k] = NoRun
                /\ instances[k] = lastBind[k].instBefore[k]

\* C2, amended: after Bind(P) of a deferred provider no hook runs for
\* P.Name() until Make, MustMake or MakeNew has been called for it; Bind and
\* IsBind run none, and instances[P.Name()] stays as Bind found it until Make
\* or MustMake has been called.
C2_NoHookBeforeResolution ==
    /\ DeferredBindIsInert
    /\ \A k \in Keys :
            DeferredBound(k) =>
                /\ resolved[k] = {} => ranSince[k] = NoRun
                /\ resolved[k] \cap {"Make", "MustMake"} = {} =>
                        instances[k] = lastBind[k].instBefore[k]

\* Bind of a deferred provider, then IsBind of its key returning true, with
\* no hook of the provider run and no instance cached.
C2_Witness ==
    /\ AllIdle
    /\ ReturnedTwo
    /\ Prev.op = "Bind" /\ IsDefer(Prev.provider)
    /\ Last.op = "IsBind" /\ Last.key = Prev.key /\ Last.bool
    /\ hookCount[Prev.provider] = NoRun
    /\ instances[Last.key] = NoInstance

\* C3, as stated: two consecutive Make(key) of a bound key that both return
\* an instance return the same one, and the factory runs at most once across
\* the two calls.
C3_MakeTwiceRunsFactoryOnce ==
    (ReturnedTwo /\ Prev.op = "Make" /\ Last.op = "Make" /\ Prev.key = Last.key
        /\ Prev.found) =>
        /\ (Prev.err = NoErr /\ Last.err = NoErr) => Last.val = Prev.val
        /\ Prev.ran.factory + Last.ran.factory <= 1

\* C3, amended: when Make(key) has returned an instance, the next Make(key),
\* with no Bind in between, returns that same instance without running any
\* hook, so the factory runs at most once across the two calls.
C3_MakeIdempotentAfterSuccess ==
    (ReturnedTwo /\ Prev.op = "Make" /\ Last.op = "Make" /\ Prev.key = Last.key
        /\ Prev.found /\ Prev.err = NoErr) =>
        /\ Last.err = NoErr
        /\ Last.val = Prev.val
        /\ Last.val # NoInstance
        /\ Last.ran = NoRun
        /\ Prev.ran.factory + Last.ran.factory <= 1

\* Make builds and caches the instance, the next Make returns it.
C3_Witness ==
    /\ AllIdle
    /\ ReturnedTwo
    /\ Prev.op = "Make" /\ Last.op = "Make" /\ Prev.key = Last.key
    /\ Prev.err = NoErr /\ Prev.ran.factory = 1
    /\ Last.val = Prev.val /\ Last.ran = NoRun

\* A resolution for a singleton: Make or MustMake.
IsMake(rec) == rec.op \in {"Make", "MustMake"}
\* The instance rec's call built on the default-parameter path: Boot, Params,
\* Register and the factory each ran once, with the provider's own parameters.
BuiltByDefault(rec) ==
    /\ rec.ran = [boot |-> 1, params |-> 1, register |-> 1, factory |-> 1]
    /\ rec.val = rec.inst
    /\ rec.val.by = rec.sp
    /\ rec.val.args = Params(rec.sp).elems

\* C4: MakeNew leaves instances as it found it, while it runs and when it
\* returns, whether it fails or not; no object MakeNew returned is ever
\* cached or returned by Make/MustMake: these return the instance cached
\* before the call or one newly built on the default-parameter path.
C4_MakeNewLeavesCache ==
    /\ \A g \in Procs : frame[g].op = "MakeNew" => instances = frame[g].instBefore
    /\ (Returned /\ Last.op = "MakeNew") => instances = Last.instBefore
    /\ \A k \in Keys : instances[k].id \notin newMade
    /\ (Returned /\ IsMake(Last) /\ Last.err = NoErr) =>
            /\ Last.val.id \notin newMade
            /\ \/ Last.val = Last.instBefore[Last.key] /\ Last.val # NoInstance
               \/ BuiltByDefault(Last) /\ Last.instBefore[Last.key] = NoInstance

\* MakeNew(key, ["host-a"]) returns an object, then Make(key) builds and
\* caches another one.
C4_Witness ==
    /\ AllIdle
    /\ ReturnedTwo
    /\ Prev.op = "MakeNew" /\ Prev.err = NoErr /\ Prev.val.args = <<"host-a">>
    /\ Last.op = "Make" /\ Last.key = Prev.key /\ Last.err = NoErr
    /\ Last.val # Prev.val
    /\ instances[Last.key] = Last.val

\* C5: IsBind(key) returns false when no Bind of key has begun before it
\* returns, and true when a Bind of key had returned before it was called,
\* whether the provider is deferred or eager and whether Bind returned an error.
C5_IsBindTellsBound ==
    (Returned /\ Last.op = "IsBind") =>
        /\ (Last.seenBefore = "returned") => Last.bool
        /\ (Last.seenBefore = "none" /\ bindSeen[Last.key] = "none") => ~Last.bool

\* Bind of an eager provider returns an error, then IsBind of its key
\* returns true.
C5_Witness ==
    /\ AllIdle
    /\ ReturnedTwo
    /\ Prev.op = "Bind" /\ ~IsDefer(Prev.provider) /\ Prev.err # NoErr
    /\ Last.op = "IsBind" /\ Last.key = Prev.key /\ Last.bool

\* C6: Make and MakeNew of a key with no provider return nil and the error
\* that names the key, MustMake panics; none of them runs a hook or changes
\* providers or instances.
C6_UnboundKeyFails ==
    (AllIdle /\ Returned /\ Last.op \in {"Make", "MustMake", "MakeNew"}
        /\ Last.provBefore[Last.key] = NoProvider) =>
        /\ Last.val = NoInstance
        /\ Last.err = NotRegisteredErr(Last.key)
        /\ Last.err.key = Last.key
        /\ Last.ran = NoRun
        /\ providers = Last.provBefore
        /\ instances = Last.instBefore
        /\ Last.panicked = (Last.op = "MustMake")

\* MustMake of a key with no provider has panicked, after a MakeNew of the
\* same key returned the error.
C6_Witness ==
    /\ AllIdle
    /\ ReturnedTwo
    /\ Prev.op = "MakeNew" /\ Prev.err = NotRegisteredErr(Prev.key)
    /\ Last.op = "MustMake" /\ Last.key = Prev.key
    /\ Last.provBefore[Last.key] = NoProvider
    /\ Last.panicked

\* C7: when Bind returns, providers[key] is the provider it was given, also
\* when the key was bound before; and a hook only ever runs on the provider
\* that is bound to its key at that moment, so after a second Bind of a key
\* no resolution runs a hook of the provider that was replaced.
C7_LastBindWins ==
    [][/\ (AllIdle /\ Returned /\ Last.op = "Bind")' =>
                (providers[Last.key] = Last.provider)'
       /\ \A p \in Providers :
                hookCount'[p] # hookCount[p] => providers[Name(p)] = p
       /\ (AllIdle /\ Returned /\ Last.op \in {"Make", "MustMake", "MakeNew"}
                /\ Last.ran # NoRun)' =>
                (Last.sp = providers[Last.key] /\ Last.sp # NoProvider)'
      ]_vars

\* A second Bind of "logger" replaced the provider, and a MakeNew of the key
\* then ran the new provider's Boot, Register and factory.
C7_Witness ==
    /\ AllIdle
    /\ ReturnedTwo
    /\ Prev.op = "Bind"
    /\ Prev.provBefore[Prev.key] # NoProvider
    /\ Prev.provBefore[Prev.key] # Prev.provider
    /\ Last.op = "MakeNew" /\ Last.key = Prev.key
    /\ Last.sp = Prev.provider
    /\ Last.val.by = Prev.provider
    /\ Last.ran.boot = 1 /\ Last.ran.factory = 1

\* C8: Bind of a deferred provider leaves instances as it found it, so an
\* instance cached under the key before stays cached, and the Make(key) that
\* follows returns it without running a hook.
C8_RebindKeepsCache ==
    /\ (AllIdle /\ Returned /\ Last.op = "Bind" /\ IsDefer(Last.provider)) =>
            instances = Last.instBefore
    /\ (AllIdle /\ ReturnedTwo /\ Prev.op = "Bind" /\ IsDefer(Prev.provider)
            /\ Prev.instBefore[Prev.key] # NoInstance
            /\ IsMake(Last) /\ Last.key = Prev.key) =>
            /\ Last.err = NoErr
            /\ Last.val = Prev.instBefore[Prev.key]
            /\ instances[Last.key] = Last.val
            /\ Last.ran = NoRun

\* An instance built by the eager provider of "logger" is cached, a deferred
\* provider is bound to the key, and Make returns the old instance.
C8_Witness ==
    /\ AllIdle
    /\ ReturnedTwo
    /\ Prev.op = "Bind" /\ IsDefer(Prev.provider)
    /\ Last.op = "Make" /\ Last.key = Prev.key
    /\ Last.val # NoInstance
    /\ Last.val.by # Prev.provider
    /\ providers[Last.key] = Prev.provider
    /\ hookCount[Prev.provider] = NoRun

\* The call rec ran Boot and returned an error: an instantiation that failed.
FailedAttempt(rec) ==
    /\ rec.op \in {"Bind", "Make", "MustMake", "MakeNew"}
    /\ rec.ran.boot = 1
    /\ rec.err # NoErr
\* The error of a failed attempt is Boot's own error value, or a new error
\* value that carries the message of the factory's.
ErrorOfAttempt(rec, p) ==
    \/ rec.ran.factory = 0 /\ rec.err = BootErr(p)
    \/ /\ rec.ran = [boot |-> 1, params |-> rec.ran.params, register |-> 1, factory |-> 1]
       /\ rec.err = ErrorsNew(FactoryErr(p))
\* Make ran the whole pipeline: Boot, and unless Boot failed Params, Register
\* and the factory, and it cached and returned the instance if there is one.
RanPipeline(rec) ==
    /\ rec.ran.boot = 1
    /\ rec.err # BootErr(rec.sp) =>
            rec.ran = [boot |-> 1, params |-> 1, register |-> 1, factory |-> 1]
    /\ rec.err = NoErr => BuiltByDefault(rec) /\ instances[rec.key] = rec.val
    /\ rec.err # NoErr => rec.val = NoInstance /\ instances[rec.key] = NoInstance
\* A failed attempt returns its error and nil and leaves instances alone.
FailureCachesNothing ==
    (AllIdle /\ Returned /\ FailedAttempt(Last)) =>
        /\ instances = Last.instBefore
        /\ Last.val = NoInstance
        /\ ErrorOfAttempt(Last, IF Last.op = "Bind" THEN Last.provider ELSE Last.sp)

\* C9, as stated: a failed attempt (in Make, MakeNew or the eager path of
\* Bind) returns the error and leaves instances alone, and the Make(key) that
\* follows runs the whole Boot -> Params -> factory pipeline again, caching
\* and returning the new instance if it succeeds.
C9_FailureThenFullRetry ==
    /\ FailureCachesNothing
    /\ (AllIdle /\ ReturnedTwo /\ FailedAttempt(Prev) /\ Last.op = "Make"
            /\ Last.key = Prev.key) => RanPipeline(Last)

\* C9, amended: a failed attempt returns the error and leaves instances
\* alone; the Make(key) that follows runs the whole pipeline again, caching
\* and returning the new instance if it succeeds, when no instance is cached
\* for the key, and returns the cached instance without running a hook when
\* one is (cached before a failed MakeNew or a failed eager re-Bind).
C9_FailureThenRetryUnlessCached ==
    /\ FailureCachesNothing
    /\ (AllIdle /\ ReturnedTwo /\ FailedAttempt(Prev) /\ Last.op = "Make"
            /\ Last.key = Prev.key) =>
            IF Prev.instBefore[Prev.key] = NoInstance
            THEN RanPipeline(Last)
            ELSE /\ Last.ran = NoRun
                 /\ Last.err = NoErr
                 /\ Last.val = Prev.instBefore[Prev.key]

\* Make fails in the factory with nothing cached, and the next Make runs the
\* pipeline again, succeeds and caches the instance.
C9_Witness ==
    /\ AllIdle
    /\ ReturnedTwo
    /\ Prev.op = "Make" /\ Prev.err = ErrorsNew(FactoryErr(Prev.sp))
    /\ Last.op = "Make" /\ Last.key = Prev.key /\ Last.err = NoErr
    /\ Last.ran = [boot |-> 1, params |-> 1, register |-> 1, factory |-> 1]
    /\ instances[Last.key] = Last.val
    /\ Last.val # NoInstance

\* No call that is running has overlapped a Bind.
NoConcurrentBind == \A g \in Procs : frame[g].op # "none" => ~frame[g].sawBind
\* Goroutine g returns from Make or MustMake in this step.
MakeReturns(g) == IsMake(frame[g]) /\ pc[g] # "idle" /\ pc'[g] = "idle"
\* The call that returned last is a Make of key k that overlapped no Bind and
\* whose instance is the one cached for k.
FirstMakeCached(k) ==
    /\ Returned
    /\ IsMake(Last) /\ Last.key = k /\ ~Last.sawBind
    /\ Last.err = NoErr
    /\ instances[k] = Last.val

\* C10: among concurrent Make(key) calls that overlap no Bind, the first
\* instance cached stays: once one of them has cached and returned its
\* instance, a Make that returns does not replace instances[key], and if it
\* returns an instance it is that same one.
C10_FirstInstantiationWins ==
    [][NoConcurrentBind =>
        \A g \in Procs :
            (MakeReturns(g) /\ FirstMakeCached(frame[g].key)) =>
                /\ instances'[frame[g].key] = instances[frame[g].key]
                /\ Last'.err = NoErr => Last'.val = instances[frame[g].key]
      ]_vars

\* ------------------------------------------------------------ C11
\* A step of the call goroutine self is running.
Running(self) ==
    \/ BindLock(self) \/ BindPut(self) \/ BindUnlock(self) \/ BindBoot(self)
    \/ BindParams(self) \/ BindRegister(self) \/ BindFactory(self) \/ BindCache(self)
    \/ FindRLock(self) \/ FindRead(self) \/ MakeRLock(self) \/ MakeCheck(self)
    \/ NiBoot(self) \/ NiParams(self) \/ NiRegister(self) \/ NiFactory(self)
    \/ MakeCache(self) \/ ListRead(self)

\* Every goroutine inside a call waits for the lock.  Goroutines between
\* calls hold no lock, so nothing they do lets a waiting goroutine go on.
AllBlocked ==
    /\ \E g \in Procs : pc[g] # "idle"
    /\ \A g \in Procs : pc[g] # "idle" => ~ ENABLED Running(g)

\* C11: every container operation completes -- no reachable state has the
\* goroutines that are inside a call blocked forever on the lock, also not
\* when make holds the read lock, findServiceProvider asks for it again and
\* a Bind waits for the write lock in between.
C11_NoCallBlocksForever == ~ AllBlocked

\* ------------------------------------------------------------ C12
\* Goroutine g holds the lock for reading, or holds it for writing (Lock has
\* returned: no reader is left).
HoldsRead(g) == readers[g] > 0
HoldsWrite(g) == wmutex = g /\ \A h \in Procs : readers[h] = 0

\* Positions whose step reads providers or instances, writes providers,
\* writes instances.
ReadsMaps == {"find_read", "make_check", "list_read"}
WritesProviders == {"bind_put"}
WritesInstances == {"bind_cache", "make_cache"}

\* Goroutine g takes the step of position label.
StepsFrom(g, label) == pc[g] = label /\ pc'[g] # label

\* C12: the one lock guards every access to the two maps -- a goroutine that
\* reads providers or instances holds the lock for reading or writing, one
\* that writes providers holds it for writing, and the write of
\* instances[key] that ends an eager Bind and the reads of NameList and
\* PrintProviders are made under the lock too.
C12_LockGuardsEveryAccess ==
    [][\A g \in Procs :
        /\ \A label \in ReadsMaps \cup WritesInstances :
            StepsFrom(g, label) => HoldsRead(g) \/ HoldsWrite(g)
        /\ \A label \in WritesProviders : StepsFrom(g, label) => HoldsWrite(g)]_vars

\* ------------------------------------------------------------ C13
\* The caller of MakeNew supplied no parameters: nil or an empty list.
NoneSupplied(rec) == rec.given.nil \/ rec.given.elems = <<>>

\* A MakeNew that got as far as choosing the factory's arguments.
ChoseArguments(rec) == rec.op = "MakeNew" /\ rec.ran.register = 1

\* C13: in MakeNew, parameters the caller supplies go to the factory as they
\* are and the provider's Params is not called; Params is used when, and only
\* when, none were supplied (nil or an empty list).  Two MakeNew calls with
\* the same one-element list run the factory twice, each with that list, and
\* return two distinct instances.
C13_CallerParamsBeforeProviderParams ==
    /\ Returned /\ ChoseArguments(Last) =>
        /\ ~ NoneSupplied(Last) =>
            /\ Last.ran.params = 0
            /\ Last.err = NoErr => Last.val.args = Last.given.elems
        /\ NoneSupplied(Last) =>
            /\ Last.ran.params = 1
            /\ Last.err = NoErr => Last.val.args = Params(Last.sp).elems
    /\ ( /\ ReturnedTwo
         /\ ChoseArguments(Last) /\ ChoseArguments(Prev)
         /\ Last.key = Prev.key /\ Last.given = Prev.given /\ ~ NoneSupplied(Last)
         /\ Last.err = NoErr /\ Prev.err = NoErr )
       => /\ Last.ran.factory = 1 /\ Prev.ran.factory = 1
          /\ Last.val.args = Last.given.elems /\ Prev.val.args = Last.given.elems
          /\ Last.val.id # Prev.val.id

\* ------------------------------------------------------------ C14
\* C14: under any interleaving of Bind, Make, MakeNew and IsBind, every key
\* that has a cached instance has a provider.
C14_InstancesWithinProviders ==
    \A k \in Keys : instances[k] # NoInstance => providers[k] # NoProvider

\* One goroutine has cached an instance of a key while the other is inside
\* a Make of the same key that has found its provider.
C14_Witness ==
    \E g \in Procs :
        /\ pc[g] \in {"make_check", "ni_boot", "ni_params", "ni_register", "ni_factory"}
        /\ frame[g].found
        /\ instances[frame[g].key] # NoInstance
        /\ \E h \in Procs \ {g} : pc[h] = "idle"

\* ------------------------------------------------------------ C15
\* Goroutine g ends an eager Bind of key k with its write of instances[k].
BindCaches(g, k) ==
    /\ pc[g] = "bind_cache" /\ pc'[g] = "idle"
    /\ frame[g].op = "Bind" /\ frame[g].key = k
    /\ IsDefer(frame[g].provider) = FALSE

\* C15: per key the state only moves forward -- a key that is in providers
\* stays there, a key that is in instances stays there, and the value of
\* instances[key], once set, changes only through a Bind of a provider that
\* is not deferred under that key, never through Make or MakeNew.
C15_PerKeyStateMovesForward ==
    [][\A k \in Keys :
        /\ providers[k] # NoProvider => providers'[k] # NoProvider
        /\ instances[k] # NoInstance => instances'[k] # NoInstance
        /\ (instances[k] # NoInstance /\ instances'[k] # instances[k])
           => \E g \in Procs : BindCaches(g, k)]_vars

\* ------------------------------------------------------------ C16
\* The call rec is an instantiation attempt: an eager Bind, a Make or
\* MustMake that found the provider and no cached instance, or a MakeNew that
\* found the provider.
IsAttempt(rec) ==
    \/ rec.op = "Bind" /\ IsDefer(rec.provider) = FALSE
    \/ IsMake(rec) /\ rec.found /\ ~ rec.cached
    \/ rec.op = "MakeNew" /\ rec.found

\* Boot has run once in the call of rec before any other hook has.
BootFirst(rec) ==
    /\ rec.ran.boot <= 1
    /\ (rec.ran.params > 0 \/ rec.ran.register > 0 \/ rec.ran.factory > 0)
        => rec.ran.boot = 1

\* C16: in every instantiation attempt (eager Bind, cache-miss Make, MakeNew)
\* Boot is invoked exactly once, before Params and the factory; if Boot
\* returns an error, Params, Register and the factory are not invoked, the
\* Boot error is returned unchanged and no instance is cached.
C16_BootFirstAndDecisive ==
    /\ \A g \in Procs : BootFirst(frame[g])
    /\ Returned =>
        /\ BootFirst(Last)
        /\ IsAttempt(Last) => Last.ran.boot = 1
        /\ Last.bootErr # NoErr =>
            /\ Last.ran = [boot |-> 1, params |-> 0, register |-> 0, factory |-> 0]
            /\ Last.err = Last.bootErr
            /\ Last.err.obj = "provider"
            /\ Last.val = NoInstance
            /\ AllIdle => instances = Last.instBefore

\* Boot failed in a Make with nothing cached, and the call returned Boot's
\* error having run no other hook.
C16_Witness ==
    /\ AllIdle
    /\ Returned
    /\ IsMake(Last) /\ IsAttempt(Last)
    /\ Last.bootErr = BootErr(Last.sp)
    /\ Last.err = Last.bootErr
    /\ Last.ran = [boot |-> 1, params |-> 0, register |-> 0, factory |-> 0]
    /\ instances[Last.key] = NoInstance

\* ------------------------------------------------------------ C17
\* The call rec is an eager Bind that failed in Boot or in the factory.
FailedEagerBind(rec) ==
    /\ rec.op = "Bind" /\ IsDefer(rec.provider) = FALSE
    /\ rec.err # NoErr
    /\ ErrorOfAttempt(rec, rec.provider)

\* A failed eager Bind has returned: the provider is bound all the same and
\* instances is as it was.
FailedBindIsRecorded ==
    (AllIdle /\ Returned /\ Last.op = "Bind" /\ Last.err # NoErr) =>
        /\ FailedEagerBind(Last)
        /\ providers[Last.key] = Last.provider
        /\ instances = Last.instBefore

\* C17, as stated: when the eager instantiation of Bind fails, Bind returns
\* the error, providers[key] is already the new provider, instances is
\* unchanged, and a later Make(key) retries the pipeline with that provider.
C17_FailedBindThenRetry ==
    /\ FailedBindIsRecorded
    /\ (AllIdle /\ ReturnedTwo /\ FailedEagerBind(Prev) /\ Last.op = "Make"
            /\ Last.key = Prev.key) =>
            Last.sp = Prev.provider /\ RanPipeline(Last)

\* C17, amended: when the eager instantiation of Bind fails, Bind returns the
\* error, providers[key] is already the new provider and instances is
\* unchanged; a later Make(key) retries the pipeline with that provider when
\* no instance is cached for the key, and returns the instance cached before
\* the Bind, running no hook, when one is.
C17_FailedBindThenRetryUnlessCached ==
    /\ FailedBindIsRecorded
    /\ (AllIdle /\ ReturnedTwo /\ FailedEagerBind(Prev) /\ Last.op = "Make"
            /\ Last.key = Prev.key) =>
            /\ Last.sp = Prev.provider
            /\ IF Prev.instBefore[Prev.key] = NoInstance
               THEN RanPipeline(Last)
               ELSE /\ Last.ran = NoRun
                    /\ Last.err = NoErr
                    /\ Last.val = Prev.instBefore[Prev.key]

\* An eager Bind fails in Boot with nothing cached; the provider is bound and
\* the Make that follows builds and caches an instance with it.
C17_Witness ==
    /\ AllIdle
    /\ ReturnedTwo
    /\ FailedEagerBind(Prev) /\ Prev.err = BootErr(Prev.provider)
    /\ Prev.instBefore[Prev.key] = NoInstance
    /\ Last.op = "Make" /\ Last.key = Prev.key /\ Last.err = NoErr
    /\ Last.sp = Prev.provider
    /\ providers[Last.key] = Prev.provider
    /\ instances[Last.key] = Last.val /\ Last.val.by = Prev.provider

\* ------------------------------------------------------------ C18
\* Positions of Bind after its write of providers[key]: the eager pipeline
\* and the write of instances[key].
BindPipeline ==
    {"bind_boot", "bind_params", "bind_register", "bind_factory", "bind_cache",
     "old_boot", "old_params", "old_register", "old_factory", "old_cache"}

\* Positions inside the IsBind that a Boot hook calls.
InHookCall == {"hook_rlock", "hook_read"}

\* C18: Bind holds the write lock only while it writes providers[key] -- the
\* eager pipeline runs with the lock released, so that a Boot which calls
\* IsBind (or Make) on the same container during Bind is not blocked and Bind
\* returns.
C18_BindPipelineRunsUnlocked ==
    \A g \in Procs : frame[g].op = "Bind" =>
        /\ pc[g] \in BindPipeline \cup InHookCall => wmutex # g
        /\ pc[g] = "hook_rlock" => ENABLED HookRLock(g)

\* A Bind whose Boot has called IsBind on the container has cached its
\* instance and returned: reached by container.go (SpecHooks), never by the
\* older container (SpecOld).
HookBindReturned ==
    /\ AllIdle
    /\ Returned
    /\ Last.op = "Bind" /\ Last.called /\ Last.err = NoErr
    /\ instances[Last.key] = Last.inst /\ Last.inst # NoInstance

\* ------------------------------------------------------------ C19
\* C19: a cache hit runs no provider code -- when instances[key] is present,
\* Make and MustMake return it without invoking Boot, Params, Register or the
\* factory of the provider now bound to the key, and leave providers and
\* instances as they are.
C19_CacheHitRunsNoHook ==
    (AllIdle /\ Returned /\ IsMake(Last) /\ Last.instBefore[Last.key] # NoInstance) =>
        /\ Last.val = Last.instBefore[Last.key]
        /\ Last.err = NoErr /\ ~ Last.panicked
        /\ Last.ran = NoRun
        /\ providers = Last.provBefore
        /\ instances = Last.instBefore

\* MustMake returns an instance cached by an earlier provider of the key; the
\* provider bound now has run no hook at all.
C19_Witness ==
    /\ AllIdle
    /\ Returned
    /\ Last.op = "MustMake" /\ Last.cached
    /\ Last.val = instances[Last.key] /\ Last.val # NoInstance
    /\ Last.val.by # providers[Last.key]
    /\ hookCount[providers[Last.key]] = NoRun

\* ------------------------------------------------------------ C20
\* Goroutine g takes a step of a call of op for key k.
StepOf(g, ops, k) == pc'[g] # pc[g] /\ frame[g].op \in ops /\ frame[g].key = k

\* C20: only Bind changes the registry -- IsBind, Make, MustMake and MakeNew
\* never add, replace or remove an entry of providers; Make and MustMake
\* change instances only by adding an entry for the requested key; and no
\* operation changes an entry of either map for a key other than the one it
\* was called with.
C20_OnlyBindChangesRegistry ==
    [][\A k \in Keys :
        /\ providers'[k] # providers[k] => \E g \in Procs : StepOf(g, {"Bind"}, k)
        /\ instances'[k] # instances[k] =>
            \E g \in Procs :
                \/ StepOf(g, {"Bind"}, k)
                \/ StepOf(g, {"Make", "MustMake"}, k) /\ instances[k] = NoInstance]_vars
====
